---- MODULE Spec2Model ----
(***************************************************************************)
(* Ingestion and retrieval engine of lawxygen-drafting.                    *)
(*                                                                         *)
(*   src/ingest.py  chunk_text, get_embedding, ingest_pdf                  *)
(*   src/main.py    load_vector_store                                      *)
(*                                                                         *)
(* A text is a sequence of character codes.  The snapshot file is a        *)
(* sequence of JSON tokens, each a tuple of integers, so that a write cut  *)
(* short by a kill leaves a proper prefix of the serialisation on disk.    *)
(***************************************************************************)
EXTENDS Integers, Sequences, FiniteSets, TLC

(***************************************************************************)
(* Bounds of the model.                                                    *)
(* chunk_text's defaults are chunk_size=1000, overlap=200 (ingest.py:46);  *)
(* ingest_pdf is run here with the scaled window ChunkSize/Overlap so that *)
(* a source of a dozen chunks stays a short text.                          *)
(***************************************************************************)
ChunkSize == 5
Overlap == 1
LongLen == 48
ShortLen == 9
MaxProviderVersion == 1
MaxStoreLen == 3
MaxK == 4
MaxTextLen == 4
MaxSize == 3
MaxSteps == 7

(***************************************************************************)
(* Program constants.                                                      *)
(***************************************************************************)
max_retries == 3
BackoffBase == 30
CheckpointEvery == 10

(***************************************************************************)
(* Characters and texts.                                                   *)
(***************************************************************************)
\* the characters str.strip() removes
Whitespace ==
    {9, 10, 11, 12, 13, 28, 29, 30, 31, 32, 133, 160, 5760, 8232, 8233, 8239,
     8287, 12288} \cup (8192..8202)

\* str.strip() of a chunk is truthy iff some character is not whitespace
IsBlank(s) == \A k \in 1..Len(s) : s[k] \in Whitespace

Min(a, b) == IF a < b THEN a ELSE b

\* a bound of a slice of a sequence of n items, as Python reads it: a
\* negative bound counts from the end, and every bound is clipped to 0..n
SliceBound(k, n) ==
    IF k < 0 THEN (IF k + n < 0 THEN 0 ELSE k + n) ELSE Min(k, n)

\* text[start:end], start and end 0-based
Slice(text, start, end) ==
    LET lo == SliceBound(start, Len(text))
        hi == SliceBound(end, Len(text))
    IN IF lo >= hi THEN <<>> ELSE SubSeq(text, lo + 1, hi)

\* a loop test that lets the window start at the end of the text
loop_continues_inclusive(start, text) == start <= Len(text)

\* line 50: while start < len(text)
loop_continues(start, text) == start < Len(text)

\* line 51: end = start + chunk_size
window_end(start, chunk_size) == start + chunk_size

\* line 53: if chunk.strip()
keeps(chunk) == ~IsBlank(chunk)

\* an advance that forgets the overlap
next_start_no_overlap(end, overlap) == end

\* line 55: start = end - overlap
next_start(end, overlap) == end - overlap

RECURSIVE chunk_loop(_, _, _, _, _)
chunk_loop(text, chunk_size, overlap, start, chunks) ==
    IF loop_continues(start, text)
    THEN LET end == window_end(start, chunk_size)
             chunk == Slice(text, start, end)
         IN chunk_loop(text, chunk_size, overlap, next_start(end, overlap),
                       IF keeps(chunk) THEN Append(chunks, chunk) ELSE chunks)
    ELSE chunks

chunk_text(text, chunk_size, overlap) ==
    chunk_loop(text, chunk_size, overlap, 0, <<>>)

\* The two source documents an operator may point ingest_pdf at.
LongText == [p \in 1..LongLen |-> 64 + p]
ShortText == [p \in 1..ShortLen |-> 200 + p]
Sources == {LongText, ShortText}

(***************************************************************************)
(* The embedding provider.  It maps a text to a vector; the provider's     *)
(* model may be upgraded between calls, after which the same text gets     *)
(* another vector, of the dimension of the new model.                      *)
(***************************************************************************)
EmbeddingOf(text, version) ==
    <<text[1], Len(text)>> \o [k \in 1..(version + 1) |-> version]

\* Messages of the exceptions the provider call can raise, as characters.
Msg429 == <<"4", "2", "9">>
MsgRate == <<"R", "a", "t", "e">>
Msg500 == <<"5", "0", "0">>
MsgMaxRetries == <<"M", "a", "x">>
ErrorMessages == {Msg429, MsgRate, Msg500}

UpperCase == <<"A", "B", "C", "D", "E", "F", "G", "H", "I", "J", "K", "L", "M",
               "N", "O", "P", "Q", "R", "S", "T", "U", "V", "W", "X", "Y", "Z">>
LowerCase == <<"a", "b", "c", "d", "e", "f", "g", "h", "i", "j", "k", "l", "m",
               "n", "o", "p", "q", "r", "s", "t", "u", "v", "w", "x", "y", "z">>

LowerChar(c) ==
    IF \E k \in 1..Len(UpperCase) : UpperCase[k] = c
    THEN LowerCase[CHOOSE k \in 1..Len(UpperCase) : UpperCase[k] = c]
    ELSE c

\* str.lower()
Lower(s) == [k \in 1..Len(s) |-> LowerChar(s[k])]

Contains(s, sub) ==
    \E k \in 0..(Len(s) - Len(sub)) : SubSeq(s, k + 1, k + Len(sub)) = sub

\* "429" in str(e) or "rate" in str(e).lower()
IsRateLimit(msg) ==
    Contains(msg, <<"4", "2", "9">>) \/ Contains(Lower(msg), <<"r", "a", "t", "e">>)

(***************************************************************************)
(* The snapshot file: json.dump / json.load.                               *)
(***************************************************************************)
TokLBrace == <<0, 1>>
TokRBrace == <<0, 2>>
TokLBrack == <<0, 3>>
TokRBrack == <<0, 4>>
TokKeyEmb == <<0, 5>>
TokKeyDoc == <<0, 6>>
\* a serialisation that writes every number rounded down to an even one
TokVec_rounded(v) == <<1>> \o [k \in 1..Len(v) |-> (v[k] \div 2) * 2]

\* json.dump of one embedding, a list of numbers
TokVec(v) == <<1>> \o v
TokDoc(d) == <<2>> \o d

Dump(embs, docs) ==
    <<TokLBrace, TokKeyEmb, TokLBrack>>
      \o [k \in 1..Len(embs) |-> TokVec(embs[k])]
      \o <<TokRBrack, TokKeyDoc, TokLBrack>>
      \o [k \in 1..Len(docs) |-> TokDoc(docs[k])]
      \o <<TokRBrack, TokRBrace>>

IsVecTok(t) == t[1] = 1
IsDocTok(t) == t[1] = 2

\* json.load: the decoded object, or a JSONDecodeError when the token
\* stream is not one complete object
Parse(data) ==
    LET vecs == SelectSeq(data, IsVecTok)
        docs == SelectSeq(data, IsDocTok)
        embs == [k \in 1..Len(vecs) |-> Tail(vecs[k])]
        dcs == [k \in 1..Len(docs) |-> Tail(docs[k])]
    IN IF data = Dump(embs, dcs)
       THEN [ok |-> TRUE, embeddings |-> embs, documents |-> dcs]
       ELSE [ok |-> FALSE, embeddings |-> <<>>, documents |-> <<>>]

NoFile == [exists |-> FALSE, data |-> <<>>]

\* main.py load_vector_store
load_vector_store(d) ==
    IF d.exists THEN Parse(d.data)
    ELSE [ok |-> TRUE, embeddings |-> <<>>, documents |-> <<>>]

(***************************************************************************)
(* State.                                                                  *)
(***************************************************************************)
VARIABLES
    disk,          \* VECTOR_STORE_PATH: [exists, data]
    pc,            \* position of the ingest process
    source,        \* text extracted from the PDF of the current run
    chunks,        \* ingest_pdf: chunks
    embeddings,    \* ingest_pdf: embeddings
    i,             \* ingest_pdf: loop index
    attempt,       \* get_embedding: attempt
    trace,         \* provider calls and sleeps of the current get_embedding
    result,        \* outcome of the last get_embedding invocation
    writeBuf,      \* serialisation being written by the save in progress
    version,       \* the provider's current model version
    snapshot,      \* disk as of the last completed save (or the run's start)
    killedWith,    \* number of pairs in memory when the process was killed
    startCount,    \* number of persisted embeddings the run started from
    runSaves,      \* saves completed by the current run
    sourcesUsed,   \* the sources ingested so far
    tornKill,      \* a kill has fallen inside a save
    prev,          \* the previous run, when it was killed after a completed save
    readerResult,  \* outcome of the query process's last load_vector_store
    runCalled,     \* the current run has called the provider
    startDisk,     \* disk as the current run found it
    sPc,           \* search_documents: position of the query process
    sK,            \* search_documents: top_k
    sStore,        \* search_documents: store
    sQuery,        \* search_documents: q_emb
    sCalls,        \* provider calls made by the query
    sRanked,       \* the query has computed similarities
    sOut,          \* what search_documents returned or raised
    cPc,           \* chunk_text: position of the call
    cText,         \* chunk_text: text
    cSize,         \* chunk_text: chunk_size
    cOverlap,      \* chunk_text: overlap
    cStart,        \* chunk_text: start
    cChunks,       \* chunk_text: chunks
    cSteps         \* passes of the while loop made by the call

ingestVars == <<disk, pc, source, chunks, embeddings, i, attempt, trace, result,
                writeBuf, version, snapshot, killedWith, startCount, runSaves,
                sourcesUsed, tornKill, prev, readerResult, runCalled, startDisk>>

searchVars == <<sPc, sK, sStore, sQuery, sCalls, sRanked, sOut>>

chunkVars == <<cPc, cText, cSize, cOverlap, cStart, cChunks, cSteps>>

vars == <<ingestVars, searchVars, chunkVars>>

NoResult == [status |-> "none", err |-> <<>>, vec |-> <<>>]
NotLoaded == [ok |-> TRUE, at |-> "never", whole |-> TRUE]

NoPrev == [end |-> "idle", saves |-> 0, snap |-> NoFile, source |-> <<>>]

Stopped == {"idle", "done", "aborted", "killed", "load_failed"}
Writing == {"ckpt_write", "final_write"}

EmptyStore == [ok |-> TRUE, embeddings |-> <<>>, documents |-> <<>>]
NoOutcome == [kind |-> "none", items |-> <<>>, err |-> <<>>]

\* no query is running
SearchIdle ==
    /\ sPc = "idle"
    /\ sK = 0
    /\ sStore = EmptyStore
    /\ sQuery = <<>>
    /\ sCalls = 0
    /\ sRanked = FALSE
    /\ sOut = NoOutcome

\* no call of chunk_text is followed step by step
ChunkIdle ==
    /\ cPc = "idle"
    /\ cText = <<>>
    /\ cSize = 0
    /\ cOverlap = 0
    /\ cStart = 0
    /\ cChunks = <<>>
    /\ cSteps = 0

\* no ingest run has been started
IngestIdle ==
    /\ pc = "idle"
    /\ source = <<>>
    /\ chunks = <<>>
    /\ embeddings = <<>>
    /\ i = 0
    /\ attempt = 0
    /\ trace = <<>>
    /\ result = NoResult
    /\ writeBuf = <<>>
    /\ version = 0
    /\ snapshot = NoFile
    /\ killedWith = 0
    /\ startCount = 0
    /\ runSaves = 0
    /\ sourcesUsed = {}
    /\ tornKill = FALSE
    /\ prev = NoPrev
    /\ readerResult = NotLoaded
    /\ runCalled = FALSE
    /\ startDisk = NoFile

Init ==
    /\ disk = NoFile
    /\ IngestIdle
    /\ SearchIdle
    /\ ChunkIdle

\* where the for loop goes for index j: into get_embedding or to the final save
LoopHead(j, n) == IF j < n THEN "embed" ELSE "final_open"

\* a resume that skips the persisted chunks but forgets their embeddings
resume_embeddings_fresh(existing) == <<>>

\* lines 75-76: embeddings = existing["embeddings"]
resume_embeddings(existing) == existing.embeddings

\* a resume that keeps the loaded embeddings but starts again at chunk 0
resume_start_zero(existing) == 0

\* lines 70-77: start_idx = len(embeddings) of the loaded store
resume_start(existing) == Len(existing.embeddings)

\* ingest_pdf, lines 61-80: extract, chunk, load the existing progress
Start(text) ==
    /\ pc \in Stopped
    /\ LET cs == chunk_text(text, ChunkSize, Overlap)
           existing == load_vector_store(disk)
       IN /\ source' = text
          /\ sourcesUsed' = sourcesUsed \cup {text}
          /\ snapshot' = disk
          /\ trace' = <<>>
          /\ result' = NoResult
          /\ attempt' = 0
          /\ writeBuf' = <<>>
          /\ killedWith' = 0
          /\ runSaves' = 0
          /\ runCalled' = FALSE
          /\ startDisk' = disk
          /\ prev' = IF pc = "killed" /\ runSaves >= 1
                     THEN [end |-> pc, saves |-> runSaves, snap |-> snapshot,
                           source |-> source]
                     ELSE NoPrev
          /\ IF disk.exists /\ ~existing.ok
             THEN \* json.load raises: the run ends in a traceback
                  /\ pc' = "load_failed"
                  /\ chunks' = <<>>
                  /\ embeddings' = <<>>
                  /\ i' = 0
                  /\ startCount' = 0
             ELSE /\ chunks' = cs
                  /\ embeddings' = resume_embeddings(existing)
                  /\ i' = resume_start(existing)
                  /\ startCount' = resume_start(existing)
                  /\ pc' = LoopHead(resume_start(existing), Len(cs))
    /\ UNCHANGED <<disk, version, tornKill, readerResult>>
    /\ UNCHANGED <<searchVars, chunkVars>>


(***************************************************************************)
(* get_embedding (ingest.py:17-33), one provider call per step.            *)
(***************************************************************************)
EvOk == [e |-> "ok", m |-> <<>>, v |-> 0]
EvError(msg) == [e |-> "error", m |-> msg, v |-> 0]
EvSleep(seconds) == [e |-> "sleep", m |-> <<>>, v |-> seconds]

\* an except clause that retries whatever the error is
error_action_retry_all(msg) == "retry"

\* lines 26-32: what the except clause does with the exception
error_action(msg) == IF IsRateLimit(msg) THEN "retry" ELSE "raise"

\* a loop that makes one attempt more
retry_allowed_once_more(n) == n <= max_retries

\* line 19: for attempt in range(max_retries) has an n-th pass, n from 0
retry_allowed(n) == n < max_retries

\* a checkpoint that is never due
checkpoint_due_never(j) == FALSE

\* a backoff that counts the attempts from 0
backoff_wait_from_zero(a) == BackoffBase * a

\* line 28: wait_time = 30 * (attempt + 1)
backoff_wait(a) == BackoffBase * (a + 1)

\* line 87: (i + 1) % 10 == 0
checkpoint_due(j) == (j + 1) % CheckpointEvery = 0

\* line 88: chunks[:len(embeddings)]
checkpoint_documents(cs, embs) == SubSeq(cs, 1, Min(Len(embs), Len(cs)))

\* line 99: "documents": chunks
final_documents(cs, embs) == cs

\* a failure that is swallowed, the run going on to its final save
on_embedding_error_swallowed == "final_open"

\* an exception leaving get_embedding is caught nowhere in ingest_pdf
on_embedding_error == "aborted"

\* lines 21-25: the call succeeds; lines 83-87: append, checkpoint test
CallOk ==
    /\ pc = "embed"
    /\ runCalled' = TRUE
    /\ LET v == EmbeddingOf(chunks[i + 1], version)
       IN /\ trace' = Append(trace, EvOk)
          /\ result' = [status |-> "ok", err |-> <<>>, vec |-> v]
          /\ embeddings' = Append(embeddings, v)
    /\ pc' = IF checkpoint_due(i) THEN "ckpt_open" ELSE "sleep"
    /\ UNCHANGED <<disk, source, chunks, i, attempt, writeBuf, version,
                   snapshot, killedWith, startCount, runSaves, sourcesUsed,
                   tornKill, readerResult, prev, startDisk>>
    /\ UNCHANGED <<searchVars, chunkVars>>

\* lines 26-27: the call raises an error classified as rate limiting
CallRateLimited(msg) ==
    /\ pc = "embed"
    /\ runCalled' = TRUE
    /\ error_action(msg) = "retry"
    /\ trace' = Append(trace, EvError(msg))
    /\ pc' = "backoff"
    /\ UNCHANGED <<disk, source, chunks, embeddings, i, attempt, result,
                   writeBuf, version, snapshot, killedWith, startCount,
                   runSaves, sourcesUsed, tornKill, readerResult, prev,
                   startDisk>>
    /\ UNCHANGED <<searchVars, chunkVars>>

\* lines 28-30: sleep, then the next iteration of the for loop, or line 33
Backoff ==
    /\ pc = "backoff"
    /\ trace' = Append(trace, EvSleep(backoff_wait(attempt)))
    /\ attempt' = attempt + 1
    /\ IF retry_allowed(attempt + 1)
       THEN /\ pc' = "embed"
            /\ UNCHANGED result
       ELSE /\ pc' = on_embedding_error
            /\ result' = [status |-> "raised", err |-> MsgMaxRetries, vec |-> <<>>]
    /\ UNCHANGED <<disk, source, chunks, embeddings, i, writeBuf, version,
                   snapshot, killedWith, startCount, runSaves, sourcesUsed,
                   tornKill, readerResult, prev, startDisk, runCalled>>
    /\ UNCHANGED <<searchVars, chunkVars>>

\* lines 31-32: any other error is raised again
CallFatal(msg) ==
    /\ pc = "embed"
    /\ runCalled' = TRUE
    /\ error_action(msg) = "raise"
    /\ trace' = Append(trace, EvError(msg))
    /\ result' = [status |-> "raised", err |-> msg, vec |-> <<>>]
    /\ pc' = on_embedding_error
    /\ UNCHANGED <<disk, source, chunks, embeddings, i, attempt, writeBuf,
                   version, snapshot, killedWith, startCount, runSaves,
                   sourcesUsed, tornKill, readerResult, prev, startDisk>>
    /\ UNCHANGED <<searchVars, chunkVars>>

(***************************************************************************)
(* The saves of ingest_pdf: open(..., 'w') truncates the file, json.dump   *)
(* writes the serialisation piece by piece, leaving the with block closes. *)
(***************************************************************************)
OpenForWrite(tokens, next) ==
    /\ disk' = [exists |-> TRUE, data |-> <<>>]
    /\ writeBuf' = tokens
    /\ pc' = next
    /\ UNCHANGED <<source, chunks, embeddings, i, attempt, trace, result,
                   version, snapshot, killedWith, startCount, runSaves,
                   sourcesUsed, tornKill, readerResult, prev, startDisk,
                   runCalled>>
    /\ UNCHANGED <<searchVars, chunkVars>>

WriteToken(next) ==
    /\ Len(disk.data) < Len(writeBuf)
    /\ disk' = [exists |-> TRUE,
                data |-> Append(disk.data, writeBuf[Len(disk.data) + 1])]
    /\ IF Len(disk.data) + 1 = Len(writeBuf)
       THEN /\ pc' = next
            /\ snapshot' = disk'
            /\ runSaves' = runSaves + 1
       ELSE UNCHANGED <<pc, snapshot, runSaves>>
    /\ UNCHANGED <<source, chunks, embeddings, i, attempt, trace, result,
                   writeBuf, version, killedWith, startCount, sourcesUsed,
                   tornKill, readerResult, prev, startDisk, runCalled>>
    /\ UNCHANGED <<searchVars, chunkVars>>

\* lines 88-89
CheckpointOpen ==
    /\ pc = "ckpt_open"
    /\ OpenForWrite(Dump(embeddings, checkpoint_documents(chunks, embeddings)),
                    "ckpt_write")

\* line 90
CheckpointWrite ==
    /\ pc = "ckpt_write"
    /\ WriteToken("sleep")

\* line 94, then the for loop's next index
Pace ==
    /\ pc = "sleep"
    /\ i' = i + 1
    /\ attempt' = 0
    /\ trace' = <<>>
    /\ result' = NoResult
    /\ pc' = LoopHead(i + 1, Len(chunks))
    /\ UNCHANGED <<disk, source, chunks, embeddings, writeBuf, version,
                   snapshot, killedWith, startCount, runSaves, sourcesUsed,
                   tornKill, readerResult, prev, startDisk, runCalled>>
    /\ UNCHANGED <<searchVars, chunkVars>>

\* lines 97-101
FinalOpen ==
    /\ pc = "final_open"
    /\ OpenForWrite(Dump(embeddings, final_documents(chunks, embeddings)),
                    "final_write")

\* line 102
FinalWrite ==
    /\ pc = "final_write"
    /\ WriteToken("done")

(***************************************************************************)
(* The environment: the process is killed, the provider changes its model, *)
(* a query process loads the store.                                        *)
(***************************************************************************)
Kill ==
    /\ pc \notin Stopped
    /\ pc' = "killed"
    /\ killedWith' = Len(embeddings)
    /\ tornKill' = (tornKill \/ pc \in Writing)
    /\ chunks' = <<>>
    /\ embeddings' = <<>>
    /\ i' = 0
    /\ attempt' = 0
    /\ trace' = <<>>
    /\ result' = NoResult
    /\ writeBuf' = <<>>
    /\ UNCHANGED <<disk, source, version, snapshot, startCount, runSaves,
                   sourcesUsed, readerResult, prev, startDisk, runCalled>>
    /\ UNCHANGED <<searchVars, chunkVars>>

ProviderUpgrade ==
    /\ version < MaxProviderVersion
    /\ version' = version + 1
    /\ UNCHANGED <<disk, pc, source, chunks, embeddings, i, attempt, trace,
                   result, writeBuf, snapshot, killedWith, startCount,
                   runSaves, sourcesUsed, tornKill, readerResult, prev,
                   startDisk, runCalled>>
    /\ UNCHANGED <<searchVars, chunkVars>>

ReaderLoad ==
    /\ LET got == load_vector_store(disk)
       IN readerResult' = [ok |-> got.ok,
                           at |-> IF pc \in Writing THEN "during_save" ELSE "quiet",
                           whole |-> \/ got = load_vector_store(snapshot)
                                     \/ pc \in Writing /\ got = Parse(writeBuf)]
    /\ UNCHANGED <<disk, pc, source, chunks, embeddings, i, attempt, trace,
                   result, writeBuf, version, snapshot, killedWith, startCount,
                   runSaves, sourcesUsed, tornKill, prev, startDisk, runCalled>>
    /\ UNCHANGED <<searchVars, chunkVars>>

Next ==
    \/ \E text \in Sources : Start(text)
    \/ CallOk
    \/ \E msg \in ErrorMessages : CallRateLimited(msg)
    \/ Backoff
    \/ \E msg \in ErrorMessages : CallFatal(msg)
    \/ CheckpointOpen
    \/ CheckpointWrite
    \/ Pace
    \/ FinalOpen
    \/ FinalWrite
    \/ Kill
    \/ ProviderUpgrade
    \/ ReaderLoad

Spec == Init /\ [][Next]_vars

(***************************************************************************)
(* Ingestion of one source by an operator who runs ingest_pdf again after  *)
(* every run that did not reach its end.  The process goes on running      *)
(* while it is not killed, every provider call returns, and the operator   *)
(* does start the next run.                                                *)
(***************************************************************************)
\* __main__, lines 107-113, run for the source of the runs before
Rerun(text) ==
    /\ pc # "done"
    /\ sourcesUsed \subseteq {text}
    /\ Start(text)

\* the steps a started run makes by itself
RunStep ==
    \/ CallOk
    \/ \E msg \in ErrorMessages : CallRateLimited(msg)
    \/ Backoff
    \/ \E msg \in ErrorMessages : CallFatal(msg)
    \/ CheckpointOpen
    \/ CheckpointWrite
    \/ Pace
    \/ FinalOpen
    \/ FinalWrite

NextRestart ==
    \/ \E text \in Sources : Rerun(text)
    \/ CallOk
    \/ \E msg \in ErrorMessages : CallRateLimited(msg)
    \/ Backoff
    \/ \E msg \in ErrorMessages : CallFatal(msg)
    \/ CheckpointOpen
    \/ CheckpointWrite
    \/ Pace
    \/ FinalOpen
    \/ FinalWrite
    \/ Kill

SpecRestart ==
    /\ Init
    /\ [][NextRestart]_vars
    /\ WF_vars(RunStep)
    /\ WF_vars(\E text \in Sources : Rerun(text))

(***************************************************************************)
(* search_documents (app.py:48-73; the same steps open ask, main.py:36-61) *)
(*                                                                         *)
(* Vectors have integer components.  A similarity is kept as the exact     *)
(* fraction num / sqrt(den) it stands for, num the dot product and den the *)
(* product of the two squared norms; it is nan when a norm is zero, as the *)
(* division 0/0 of numpy is.                                               *)
(***************************************************************************)
VectorPool == {<<0, 0>>, <<1, 0>>, <<9, 1>>, <<0, 1>>, <<1, 1>>, <<-1, 0>>}

\* what the provider may answer for the question
QueryPool == VectorPool \cup {<<1>>, <<1, 0, 0>>}

StoredSeqs == UNION {[1..n -> VectorPool] : n \in 0..MaxStoreLen}

DocsFor(embs) == [k \in 1..Len(embs) |-> <<300 + k>>]

StoreFiles ==
    {NoFile} \cup {[exists |-> TRUE, data |-> Dump(e, DocsFor(e))] : e \in StoredSeqs}

RECURSIVE DotUpTo(_, _, _)
DotUpTo(a, b, n) == IF n = 0 THEN 0 ELSE a[n] * b[n] + DotUpTo(a, b, n - 1)

Dot(a, b) == DotUpTo(a, b, Min(Len(a), Len(b)))

NormSq(a) == Dot(a, a)

\* lines 61-64: the similarity of one stored vector to the query
Similarity(e, q) ==
    [nan |-> (NormSq(e) = 0 \/ NormSq(q) = 0),
     num |-> Dot(e, q),
     den |-> NormSq(e) * NormSq(q)]

SignedSquare(s) == IF s.num < 0 THEN 0 - s.num * s.num ELSE s.num * s.num

\* s < t as floating-point numbers; every comparison with nan is false
SimLess(s, t) ==
    /\ ~s.nan
    /\ ~t.nan
    /\ SignedSquare(s) * t.den < SignedSquare(t) * s.den

SimEq(s, t) ==
    /\ ~s.nan
    /\ ~t.nan
    /\ SignedSquare(s) * t.den = SignedSquare(t) * s.den

\* the order np.argsort sorts by: ascending, nan last
SortsBefore(s, t) == t.nan \/ (~s.nan /\ ~SimLess(t, s))

\* np.argsort(similarities): the default sort is not stable, elements that
\* compare equal come out in any order
ArgSorts(sims) ==
    {p \in [1..Len(sims) -> 1..Len(sims)] :
        /\ \A a, b \in 1..Len(sims) : a # b => p[a] # p[b]
        /\ \A a, b \in 1..Len(sims) : a < b => SortsBefore(sims[p[a]], sims[p[b]])}

\* a slice that keeps one element too many
take_last_one_more(seq, k) ==
    IF k = 0 \/ k + 1 >= Len(seq) THEN seq
    ELSE SubSeq(seq, Len(seq) - k, Len(seq))

\* line 65: [-top_k:]
take_last(seq, k) ==
    IF k = 0 \/ k >= Len(seq) THEN seq
    ELSE SubSeq(seq, Len(seq) - k + 1, Len(seq))

\* line 65: [::-1]
Reverse(seq) == [k \in 1..Len(seq) |-> seq[Len(seq) + 1 - k]]

\* a store that is never taken for empty
is_empty_store_never(store) == FALSE

\* line 52: not store["embeddings"]
is_empty_store(store) == store.embeddings = <<>>

\* a product that stops at the shorter operand
shapes_align_any(d, l) == TRUE

\* line 64: np.dot of an (N, d) matrix and a vector of length l
shapes_align(d, l) == d = l

\* a result that carries the text of the first document
result_item_first_text(docs, sims, j) ==
    [idx |-> j, text |-> docs[1], score |-> sims[j]]

\* lines 67-72: the result built for the stored index j
result_item(docs, sims, j) ==
    [idx |-> j, text |-> docs[j], score |-> sims[j]]

Results(items) == [kind |-> "results", items |-> items, err |-> <<>>]
Raised(kind, msg) == [kind |-> kind, items |-> <<>>, err |-> msg]

InitSearch ==
    /\ disk \in StoreFiles
    /\ IngestIdle
    /\ sPc = "ready"
    /\ sK \in 0..MaxK
    /\ sStore = EmptyStore
    /\ sQuery = <<>>
    /\ sCalls = 0
    /\ sRanked = FALSE
    /\ sOut = NoOutcome
    /\ ChunkIdle

\* lines 50-53: load the store, return [] when it has no embeddings
SearchLoad ==
    /\ sPc = "ready"
    /\ LET store == load_vector_store(disk)
       IN IF ~store.ok
          THEN /\ sOut' = Raised("JSONDecodeError", <<>>)
               /\ sPc' = "raised"
               /\ UNCHANGED sStore
          ELSE IF is_empty_store(store)
          THEN /\ sOut' = Results(<<>>)
               /\ sPc' = "returned"
               /\ UNCHANGED sStore
          ELSE /\ sStore' = store
               /\ sPc' = "embed"
               /\ UNCHANGED sOut
    /\ UNCHANGED <<sK, sQuery, sCalls, sRanked>>
    /\ UNCHANGED <<ingestVars, chunkVars>>

\* line 55, lines 39-45: the provider answers the question with a vector
QueryEmbedOk(q) ==
    /\ sPc = "embed"
    /\ sQuery' = q
    /\ sCalls' = sCalls + 1
    /\ sPc' = "rank"
    /\ UNCHANGED <<sK, sStore, sRanked, sOut>>
    /\ UNCHANGED <<ingestVars, chunkVars>>

\* line 55, lines 39-45: the provider raises; get_embedding has no except
\* clause and search_documents none either
QueryEmbedError(msg) ==
    /\ sPc = "embed"
    /\ sCalls' = sCalls + 1
    /\ sOut' = Raised("provider_error", msg)
    /\ sPc' = "raised"
    /\ UNCHANGED <<sK, sStore, sQuery, sRanked>>
    /\ UNCHANGED <<ingestVars, chunkVars>>

\* lines 57-73: normalise, similarities, top k, result list
Rank ==
    /\ sPc = "rank"
    /\ LET embs == sStore.embeddings
           docs == sStore.documents
       IN IF embs = <<>>
          THEN \* np.linalg.norm(..., axis=1) of an array of one dimension
               /\ sOut' = Raised("AxisError", <<>>)
               /\ sPc' = "raised"
               /\ UNCHANGED sRanked
          ELSE IF ~shapes_align(Len(embs[1]), Len(sQuery))
          THEN /\ sOut' = Raised("ValueError", <<>>)
               /\ sPc' = "raised"
               /\ UNCHANGED sRanked
          ELSE LET sims == [k \in 1..Len(embs) |-> Similarity(embs[k], sQuery)]
               IN \E order \in ArgSorts(sims) :
                     LET top == Reverse(take_last(order, sK))
                     IN /\ sRanked' = TRUE
                        /\ IF \E k \in 1..Len(top) : top[k] > Len(docs)
                           THEN /\ sOut' = Raised("IndexError", <<>>)
                                /\ sPc' = "raised"
                           ELSE /\ sOut' = Results([k \in 1..Len(top) |->
                                                     result_item(docs, sims, top[k])])
                                /\ sPc' = "returned"
    /\ UNCHANGED <<sK, sStore, sQuery, sCalls>>
    /\ UNCHANGED <<ingestVars, chunkVars>>

NextSearch ==
    \/ SearchLoad
    \/ \E q \in QueryPool : QueryEmbedOk(q)
    \/ \E msg \in ErrorMessages : QueryEmbedError(msg)
    \/ Rank

SpecSearch == InitSearch /\ [][NextSearch]_vars

(***************************************************************************)
(* chunk_text (ingest.py:46-56) followed pass by pass of its while loop.   *)
(* The arguments are drawn from short texts over a blank and two letters   *)
(* and from window sizes and overlaps on both sides of the valid range.    *)
(* A call whose loop does not end is followed for MaxSteps passes.         *)
(***************************************************************************)
Alphabet == {32, 97, 98}

Texts == UNION {[1..n -> Alphabet] : n \in 0..MaxTextLen}

Sizes == (0 - 1)..MaxSize

Overlaps == (0 - 1)..MaxSize

InitChunk ==
    /\ disk = NoFile
    /\ IngestIdle
    /\ SearchIdle
    /\ cPc = "call"
    /\ cText \in Texts
    /\ cSize \in Sizes
    /\ cOverlap \in Overlaps
    /\ cStart = 0
    /\ cChunks = <<>>
    /\ cSteps = 0

\* lines 46-49: the function is entered; chunks = [], start = 0
ChunkEnter ==
    /\ cPc = "call"
    /\ cPc' = "loop"
    /\ cStart' = 0
    /\ cChunks' = <<>>
    /\ UNCHANGED <<cText, cSize, cOverlap, cSteps>>
    /\ UNCHANGED <<ingestVars, searchVars>>

\* lines 50-55: one pass of the while loop
ChunkStep ==
    /\ cPc = "loop"
    /\ cSteps < MaxSteps
    /\ loop_continues(cStart, cText)
    /\ LET end == window_end(cStart, cSize)
           chunk == Slice(cText, cStart, end)
       IN /\ cChunks' = IF keeps(chunk) THEN Append(cChunks, chunk) ELSE cChunks
          /\ cStart' = next_start(end, cOverlap)
    /\ cSteps' = cSteps + 1
    /\ UNCHANGED <<cPc, cText, cSize, cOverlap>>
    /\ UNCHANGED <<ingestVars, searchVars>>

\* lines 50, 56: the loop test fails, chunks is returned
ChunkReturn ==
    /\ cPc = "loop"
    /\ ~loop_continues(cStart, cText)
    /\ cPc' = "returned"
    /\ UNCHANGED <<cText, cSize, cOverlap, cStart, cChunks, cSteps>>
    /\ UNCHANGED <<ingestVars, searchVars>>

NextChunk ==
    \/ ChunkEnter
    \/ ChunkStep
    \/ ChunkReturn

SpecChunk == InitChunk /\ [][NextChunk]_vars

\* the interpreter goes on running the call until it returns
SpecChunkFair == SpecChunk /\ WF_vars(NextChunk)

(***************************************************************************)
(* Definitions shared by the properties.                                   *)
(***************************************************************************)
SourceChunks(text) == chunk_text(text, ChunkSize, Overlap)

Persisted == load_vector_store(disk)

\* the store held by the last completed save (empty when there is none)
Saved == load_vector_store(snapshot)

\* the pairs a later load recovers from the file
Recoverable == IF Persisted.ok THEN Len(Persisted.embeddings) ELSE 0

IsPrefix(a, b) == Len(a) <= Len(b) /\ \A k \in 1..Len(a) : a[k] = b[k]

ProviderVectors(text) == {EmbeddingOf(text, v) : v \in 0..MaxProviderVersion}

\* j rate-limited calls, each followed by its sleep of 30, 60, ... seconds
IsBackoffPrefix(tr, j) ==
    /\ Len(tr) = 2 * j
    /\ \A k \in 1..j :
          /\ tr[2 * k - 1].e = "error"
          /\ IsRateLimit(tr[2 * k - 1].m)
          /\ tr[2 * k] = [e |-> "sleep", m |-> <<>>, v |-> 30 * k]

ProviderCalls(tr) == Cardinality({k \in 1..Len(tr) : tr[k].e \in {"ok", "error"}})

(***************************************************************************)
(* C1  Resume: when a run is killed after a completed checkpoint that      *)
(* persisted N pairs, N < T, the next run over the same source, once it    *)
(* has ended without being killed or failed by the provider, leaves a      *)
(* persisted store of exactly T pairs whose first N documents and          *)
(* embeddings are the ones persisted before the kill.                      *)
(***************************************************************************)
C1_Resume ==
    (/\ prev.end = "killed"
     /\ prev.source = source
     /\ pc \in {"done", "load_failed"})
    => LET before == load_vector_store(prev.snap)
           T == Len(SourceChunks(source))
       IN Len(before.embeddings) < T
          => /\ Persisted.ok
             /\ Len(Persisted.embeddings) = T
             /\ Len(Persisted.documents) = T
             /\ IsPrefix(before.embeddings, Persisted.embeddings)
             /\ IsPrefix(before.documents, Persisted.documents)

(***************************************************************************)
(* C2  Crash-safe save: after a kill the file is the complete snapshot of  *)
(* the last completed save (the previous one when the kill fell inside a   *)
(* save, the new one when it fell right after it), and a load succeeds.    *)
(***************************************************************************)
C2_CrashSafeSave ==
    pc = "killed" => (disk = snapshot /\ Persisted.ok)

(***************************************************************************)
(* C3  Length invariant: the snapshot left by every completed save has as  *)
(* many documents as embeddings.                                           *)
(***************************************************************************)
C3_LengthInvariant ==
    (runSaves >= 1 /\ disk = snapshot)
    => (Persisted.ok /\ Len(Persisted.documents) = Len(Persisted.embeddings))

(***************************************************************************)
(* C4  Index correspondence: as long as every run ingested the same source *)
(* and no kill fell inside a save, every completed snapshot holds at each  *)
(* index i the i-th chunk of the source and a vector the provider returns  *)
(* for that chunk.                                                         *)
(***************************************************************************)
C4_IndexCorrespondence ==
    (sourcesUsed = {source} /\ ~tornKill /\ pc \notin Writing /\ disk.exists)
    => LET cs == SourceChunks(source)
       IN /\ Persisted.ok
          /\ Len(Persisted.documents) = Len(Persisted.embeddings)
          /\ Len(Persisted.documents) <= Len(cs)
          /\ \A k \in 1..Len(Persisted.documents) :
                /\ Persisted.documents[k] = cs[k]
                /\ Persisted.embeddings[k] \in ProviderVectors(cs[k])

\* a rerun after a run that stopped short has completed the store
C4_Witness ==
    /\ sourcesUsed = {LongText}
    /\ ~tornKill
    /\ pc = "done"
    /\ startCount = CheckpointEvery
    /\ Len(Persisted.documents) > CheckpointEvery

(***************************************************************************)
(* C5  Abort on embedding failure: once get_embedding has raised, the run  *)
(* is over: the file is the one left by the last completed save, and no    *)
(* provider call, sleep or save follows.                                   *)
(***************************************************************************)
C5_AbortOnFailure ==
    /\ [](result.status = "raised" => (pc = "aborted" /\ disk = snapshot))
    /\ [][(result.status = "raised" /\ result'.status = "raised")
            => UNCHANGED <<disk, trace, runSaves, embeddings>>]_vars

\* the failure comes after a checkpoint and a further appended pair
C5_Witness ==
    /\ result.status = "raised"
    /\ runSaves >= 1
    /\ Len(embeddings) > Len(Saved.embeddings)
    /\ Recoverable = Len(Saved.embeddings)

(***************************************************************************)
(* C6  Checkpoint cadence and bounded loss: the pairs in memory that the   *)
(* last completed save does not hold never number more than 10, a kill     *)
(* loses no more than that unsaved tail, and a run that reaches its end    *)
(* has saved all T pairs.                                                  *)
(***************************************************************************)
C6_BoundedLoss ==
    /\ (pc \notin Stopped =>
            Len(embeddings) - Len(Saved.embeddings) <= CheckpointEvery)
    /\ (pc = "killed" =>
            /\ Recoverable >= Len(Saved.embeddings)
            /\ killedWith - Recoverable <= CheckpointEvery)
    /\ ((pc = "done" /\ startCount < Len(chunks)) =>
            /\ Persisted.ok
            /\ Len(Persisted.embeddings) = Len(chunks)
            /\ Len(Persisted.documents) = Len(chunks))

(***************************************************************************)
(* C7  No torn read: a load_vector_store that falls inside a save returns  *)
(* the snapshot from before the save or the one being written.             *)
(***************************************************************************)
C7_NoTornRead ==
    readerResult.at = "during_save" => (readerResult.ok /\ readerResult.whole)

(***************************************************************************)
(* C8  Retry then success: a get_embedding that returns has made j         *)
(* rate-limited calls, j < 3, each followed by its sleep of 30, ..., 30*j  *)
(* seconds, then the one successful call, whose vector it returns.         *)
(***************************************************************************)
C8_RetryThenSuccess ==
    result.status = "ok"
    => /\ trace[Len(trace)].e = "ok"
       /\ \E j \in 0..(max_retries - 1) :
             /\ IsBackoffPrefix(SubSeq(trace, 1, Len(trace) - 1), j)
             /\ ProviderCalls(trace) = j + 1
       /\ result.vec = embeddings[Len(embeddings)]
       /\ result.vec \in ProviderVectors(chunks[i + 1])

\* two rate-limited calls, sleeps of 30 and 60 seconds, success on the third
C8_Witness ==
    /\ result.status = "ok"
    /\ Len(trace) = 5
    /\ trace[2].v = 30
    /\ trace[4].v = 60

(***************************************************************************)
(* C9  Retry exhaustion: get_embedding gives up on rate limiting only      *)
(* after the initial call and max_retries retries, every sleep being       *)
(* followed by a retry.                                                    *)
(***************************************************************************)
C9_RetryExhaustion ==
    (result.status = "raised" /\ result.err = MsgMaxRetries)
    => /\ ProviderCalls(trace) = max_retries + 1
       /\ trace[Len(trace)].e = "error"

(***************************************************************************)
(* C10  No retry of non-retriable errors: an error of the provider that is *)
(* not classified as rate limiting ends get_embedding at once: it is the   *)
(* last event of the invocation and the error raised to the caller.        *)
(***************************************************************************)
C10_NoRetryOfFatal ==
    /\ [](\A k \in 1..Len(trace) :
            (trace[k].e = "error" /\ ~IsRateLimit(trace[k].m))
            => /\ k = Len(trace)
               /\ result.status = "raised"
               /\ result.err = trace[k].m
               /\ \E j \in 0..(max_retries - 1) :
                     IsBackoffPrefix(SubSeq(trace, 1, k - 1), j))
    /\ [][(result.status = "raised" /\ result'.status = "raised")
            => trace' = trace]_vars

\* the fatal error comes at the last attempt, after two rate-limited calls
C10_Witness ==
    /\ result.status = "raised"
    /\ result.err = Msg500
    /\ Len(trace) = 5


(***************************************************************************)
(* C12  Uniform dimension: in every snapshot at rest all the embedding     *)
(* vectors have one length, whatever lengths the provider returns; a       *)
(* vector of another length is not appended to a non-empty store.          *)
(***************************************************************************)
UniformDimension(embs) ==
    \A a, b \in 1..Len(embs) : Len(embs[a]) = Len(embs[b])

C12_UniformDimension ==
    /\ (pc \notin Writing /\ Persisted.ok) => UniformDimension(Persisted.embeddings)
    /\ UniformDimension(embeddings)

(***************************************************************************)
(* C13  Monotone growth: as long as every run ingested the same source and *)
(* no kill fell inside a save, the store left by a completed save extends  *)
(* the store of the completed save before it: same documents and           *)
(* embeddings at the same indices, none removed.                           *)
(***************************************************************************)
C13_MonotoneGrowth ==
    [][(/\ runSaves' = runSaves + 1
        /\ sourcesUsed = {source}
        /\ ~tornKill)
       => LET before == load_vector_store(snapshot)
              after == load_vector_store(snapshot')
          IN /\ after.ok
             /\ IsPrefix(before.embeddings, after.embeddings)
             /\ IsPrefix(before.documents, after.documents)]_vars

\* a rerun under the upgraded provider has completed the store that the
\* run before it began: the old pairs are kept beside the new ones
C13_Witness ==
    /\ sourcesUsed = {LongText}
    /\ ~tornKill
    /\ pc = "done"
    /\ startCount = CheckpointEvery
    /\ Persisted.ok
    /\ Len(Persisted.embeddings) > CheckpointEvery
    /\ Persisted.embeddings[1] = EmbeddingOf(chunks[1], 0)
    /\ Persisted.embeddings[Len(chunks)] = EmbeddingOf(chunks[Len(chunks)], 1)

(***************************************************************************)
(* C14  Restart is idempotent: a run over a source whose chunks are all    *)
(* persisted already calls the provider not once and ends with the file    *)
(* holding the documents and embeddings it held before.                    *)
(***************************************************************************)
AllPersistedAtStart ==
    LET before == load_vector_store(startDisk)
    IN /\ startDisk.exists
       /\ before.ok
       /\ before.documents = SourceChunks(source)
       /\ Len(before.embeddings) = Len(before.documents)

C14_RestartIdempotent ==
    (pc = "done" /\ AllPersistedAtStart)
    => /\ ~runCalled
       /\ Persisted = load_vector_store(startDisk)

C14_Witness ==
    /\ pc = "done"
    /\ AllPersistedAtStart
    /\ source = LongText
    /\ version = 1


(***************************************************************************)
(* Definitions shared by the properties of the search.                     *)
(***************************************************************************)
SearchOver == sPc \in {"returned", "raised"}

StoreSize == Len(sStore.embeddings)

Returned == {sOut.items[k].idx : k \in 1..Len(sOut.items)}

IsZeroVector(v) == \A k \in 1..Len(v) : v[k] = 0

\* the cosine similarity of stored vector a is at least that of b; it is
\* not when one of the two is undefined
CosAtLeast(a, b) ==
    LET sa == Similarity(sStore.embeddings[a], sQuery)
        sb == Similarity(sStore.embeddings[b], sQuery)
    IN ~sa.nan /\ ~sb.nan /\ ~SimLess(sa, sb)

CosEqual(a, b) ==
    SimEq(Similarity(sStore.embeddings[a], sQuery),
          Similarity(sStore.embeddings[b], sQuery))

(***************************************************************************)
(* C11  Query-path retry policy: a rate-limit error of the provider on the *)
(* embedding of the question is retried; the query does not fail on the    *)
(* first such error.                                                       *)
(***************************************************************************)
C11_QueryRetry ==
    (sOut.kind = "provider_error" /\ IsRateLimit(sOut.err)) => sCalls > 1

(***************************************************************************)
(* C15  Result count: a search over a store of N >= 1 pairs with k >= 1    *)
(* and a query vector of the store's dimension returns min(k, N) results.  *)
(***************************************************************************)
C15_ResultCount ==
    (/\ SearchOver
     /\ StoreSize >= 1
     /\ sK >= 1
     /\ Len(sQuery) = Len(sStore.embeddings[1]))
    => /\ sOut.kind = "results"
       /\ Len(sOut.items) = (IF sK < StoreSize THEN sK ELSE StoreSize)

\* k is larger than the store
C15_Witness ==
    /\ sPc = "returned"
    /\ StoreSize = 2
    /\ sK = 4
    /\ Len(sOut.items) = 2

(***************************************************************************)
(* C16  Ranking: the results come in non-increasing order of cosine        *)
(* similarity, and every returned chunk is at least as similar to the      *)
(* query as every chunk that is not returned.                              *)
(***************************************************************************)
C16_Ranking ==
    (sPc = "returned" /\ StoreSize >= 1)
    => /\ \A a, b \in 1..Len(sOut.items) :
             a < b => CosAtLeast(sOut.items[a].idx, sOut.items[b].idx)
       /\ \A r \in Returned :
             \A j \in (1..StoreSize) \ Returned : CosAtLeast(r, j)

(***************************************************************************)
(* C17  Tie-break: stored vectors of equal similarity come in ascending    *)
(* insertion index, and of two such vectors on either side of the top-k    *)
(* cut the lower-indexed one is returned.                                  *)
(***************************************************************************)
C17_TieBreak ==
    (sPc = "returned" /\ StoreSize >= 1)
    => /\ \A a, b \in 1..Len(sOut.items) :
             (a < b /\ CosEqual(sOut.items[a].idx, sOut.items[b].idx))
             => sOut.items[a].idx < sOut.items[b].idx
       /\ \A r \in Returned :
             \A j \in (1..StoreSize) \ Returned : CosEqual(r, j) => r < j

C19_QueryDimension ==
    (/\ SearchOver
     /\ sQuery # <<>>
     /\ StoreSize >= 1
     /\ Len(sQuery) # Len(sStore.embeddings[1]))
    => /\ sPc = "raised"
       /\ sOut.kind = "ValueError"
       /\ sOut.items = <<>>
       /\ ~sRanked

\* a query vector longer than the stored ones
C19_Witness ==
    /\ sPc = "raised"
    /\ sOut.kind = "ValueError"
    /\ StoreSize = 2
    /\ Len(sQuery) = 3

(***************************************************************************)
(* C20  Degenerate vector: a search whose query vector or one of whose     *)
(* stored vectors is all-zero fails; it returns no ranking.                *)
(***************************************************************************)
C20_DegenerateVector ==
    (/\ SearchOver
     /\ sQuery # <<>>
     /\ \/ IsZeroVector(sQuery)
        \/ \E k \in 1..StoreSize : IsZeroVector(sStore.embeddings[k]))
    => (sPc = "raised" /\ sOut.kind # "results")

(***************************************************************************)
(* Definitions shared by the properties of the store file.                 *)
(***************************************************************************)
\* a complete snapshot: one object with as many documents as embeddings
WellFormed(d) ==
    LET s == Parse(d.data)
    IN s.ok /\ Len(s.embeddings) = Len(s.documents)

\* the number of embeddings in the file the current run found
PersistedAtStart ==
    LET before == load_vector_store(startDisk)
    IN IF before.ok THEN Len(before.embeddings) ELSE 0

(***************************************************************************)
(* C21  Corrupt snapshot: a run of ingest_pdf that finds a file which is   *)
(* not a complete well-formed snapshot (unparsable, or with documents and  *)
(* embeddings of different length) fails at the load and leaves the file   *)
(* as it is, and load_vector_store fails on every such file.               *)
(***************************************************************************)
C21_CorruptSnapshot ==
    /\ (startDisk.exists /\ ~WellFormed(startDisk))
       => (pc = "load_failed" /\ disk = startDisk)
    /\ (disk.exists /\ ~WellFormed(disk)) => ~load_vector_store(disk).ok

ValidParams(size, overlap) == size > 0 /\ 0 <= overlap /\ overlap < size

\* the number of j >= 0 with j * step < n
WindowCount(n, step) == (n + step - 1) \div step

\* the characters of text at the 0-based positions a .. b - 1, a < Len(text)
Window(text, a, b) == [p \in 1..(Min(b, Len(text)) - a) |-> text[a + p]]

HasContent(w) == \E k \in 1..Len(w) : w[k] \notin Whitespace

\* the windows at j * (size - overlap), j = 0, 1, ..., that have content
WindowReference(text, size, overlap) ==
    LET step == size - overlap
        all == [j \in 1..WindowCount(Len(text), step) |->
                   Window(text, (j - 1) * step, (j - 1) * step + size)]
    IN SelectSeq(all, HasContent)

(***************************************************************************)
(* C23  Short text: for valid (size, overlap), a text with content that is *)
(* not longer than the window is returned as exactly one chunk, the whole  *)
(* text.                                                                   *)
(***************************************************************************)
C23_ShortText ==
    (/\ cPc = "returned"
     /\ ValidParams(cSize, cOverlap)
     /\ HasContent(cText)
     /\ Len(cText) <= cSize)
    => cChunks = <<cText>>

(***************************************************************************)
(* C24  Parameter validation: a call with size <= 0, overlap < 0 or        *)
(* overlap >= size takes no window of the text and returns no chunk        *)
(* sequence.                                                               *)
(***************************************************************************)
C24_ParameterValidation ==
    ~ValidParams(cSize, cOverlap)
    => (cSteps = 0 /\ cChunks = <<>> /\ cPc # "returned")

(***************************************************************************)
(* C25  Windowing reference: for valid (size, overlap), chunk_text returns *)
(* in order of j the windows text[j*(size-overlap) : j*(size-overlap)+size]*)
(* for the j with j*(size-overlap) < len(text), leaving out exactly the    *)
(* windows that are empty or all whitespace; the empty text gives the      *)
(* empty sequence.                                                         *)
(***************************************************************************)
C25_WindowingReference ==
    (cPc = "returned" /\ ValidParams(cSize, cOverlap))
    => /\ cChunks = WindowReference(cText, cSize, cOverlap)
       /\ chunk_text(cText, cSize, cOverlap) = cChunks
       /\ (cText = <<>> => cChunks = <<>>)

\* four overlapping windows, the second one blank and left out
C25_Witness ==
    /\ cPc = "returned"
    /\ cText = <<97, 32, 32, 98>>
    /\ cSize = 2
    /\ cOverlap = 1
    /\ cChunks = << <<97, 32>>, <<32, 98>>, <<98>> >>

(***************************************************************************)
(* C29  Chunker termination: for valid (size, overlap), every pass of the  *)
(* loop is made with the window start before the end of the text and moves *)
(* the start forward by size - overlap >= 1, the call returns only once    *)
(* the start has reached or passed len(text), it makes no more than        *)
(* len(text) passes, and it does return.                                   *)
(***************************************************************************)
C29_ChunkerTermination ==
    /\ [][(ValidParams(cSize, cOverlap) /\ cSteps' = cSteps + 1)
            => /\ cStart < Len(cText)
               /\ cSize - cOverlap >= 1
               /\ cStart' = cStart + (cSize - cOverlap)]_vars
    /\ [][(ValidParams(cSize, cOverlap) /\ cPc = "loop" /\ cPc' = "returned")
            => cStart >= Len(cText)]_vars
    /\ [](ValidParams(cSize, cOverlap) => cSteps <= Len(cText))
    /\ ((cPc = "call" /\ ValidParams(cSize, cOverlap)) ~> cPc = "returned")

\* the longest walk: a window moved on by one character at each pass
C29_Witness ==
    /\ cPc = "returned"
    /\ Len(cText) = 4
    /\ cSize = 3
    /\ cOverlap = 2
    /\ cSteps = 4
    /\ cStart = 4

(***************************************************************************)
(* C27  Silent misalignment on a changed source: a run that finds a store  *)
(* of N >= 1 embeddings produced from another source does not fail at the  *)
(* load, keeps those N embeddings at the head of its list, and when it     *)
(* reaches its end has saved a store that begins with them and in which    *)
(* some embeddings[k], k <= N, is no vector the provider returns for       *)
(* documents[k].                                                           *)
(***************************************************************************)
ProducedFrom(embs, text) ==
    LET cs == SourceChunks(text)
    IN /\ Len(embs) <= Len(cs)
       /\ \A k \in 1..Len(embs) : embs[k] \in ProviderVectors(cs[k])

StartedOverOtherSource ==
    LET before == load_vector_store(startDisk)
    IN /\ startDisk.exists
       /\ before.ok
       /\ Len(before.embeddings) >= 1
       /\ \E other \in Sources \ {source} : ProducedFrom(before.embeddings, other)

C27_SilentMisalignment ==
    StartedOverOtherSource
    => LET before == load_vector_store(startDisk)
           N == Len(before.embeddings)
       IN /\ pc # "load_failed"
          /\ (pc # "killed" => IsPrefix(before.embeddings, embeddings))
          /\ (pc = "done" =>
                /\ Persisted.ok
                /\ IsPrefix(before.embeddings, Persisted.embeddings)
                /\ \E k \in 1..Min(N, Len(Persisted.documents)) :
                      Persisted.embeddings[k]
                          \notin ProviderVectors(Persisted.documents[k]))

\* the long source ingested over the complete store of the short one
C27_Witness ==
    /\ pc = "done"
    /\ StartedOverOtherSource
    /\ source = LongText
    /\ PersistedAtStart = Len(SourceChunks(ShortText))
    /\ Len(Persisted.embeddings) = Len(SourceChunks(LongText))
    /\ Persisted.documents = SourceChunks(LongText)
    /\ Persisted.embeddings[1] \in ProviderVectors(SourceChunks(ShortText)[1])

(***************************************************************************)
(* C28  Resume skips the persisted prefix: a run that found N persisted    *)
(* embeddings calls the provider only for chunk indices i >= N, for the    *)
(* chunk that follows the ones it holds, and goes from index i to no other *)
(* index than i + 1, and only once chunk i is embedded and appended.       *)
(***************************************************************************)
IsProviderCall ==
    /\ Len(trace') = Len(trace) + 1
    /\ trace'[Len(trace')].e \in {"ok", "error"}

C28_ResumeSkipsPrefix ==
    /\ [][IsProviderCall
            => /\ i >= PersistedAtStart
               /\ i < Len(chunks)
               /\ Len(embeddings) = i]_vars
    /\ [][(pc \notin Stopped /\ pc' \notin Stopped /\ i' # i)
            => /\ i' = i + 1
               /\ result.status = "ok"
               /\ Len(embeddings) = i + 1
               /\ embeddings[i + 1] = result.vec]_vars

\* a run that found 10 embeddings has embedded the chunks 10 and 11
C28_Witness ==
    /\ PersistedAtStart = CheckpointEvery
    /\ pc = "sleep"
    /\ i = CheckpointEvery + 1
    /\ result.status = "ok"
    /\ Len(embeddings) = CheckpointEvery + 2

(***************************************************************************)
(* C30  Zero k: a search with k = 0 over a store that is not empty returns *)
(* an empty result list.                                                   *)
(***************************************************************************)
C30_ZeroK ==
    (sPc = "returned" /\ sK = 0 /\ StoreSize >= 1) => sOut.items = <<>>

(***************************************************************************)
(* C31  Pacing order: the loop index goes from i to i + 1 by the sleep of  *)
(* line 94 and by nothing else, that sleep begins only once chunk i is     *)
(* embedded and appended, and when a checkpoint is due after chunk i the   *)
(* sleep begins at the step that completes the save of the i + 1 pairs.    *)
(***************************************************************************)
C31_PacingOrder ==
    /\ [][(pc \notin Stopped /\ pc' \notin Stopped /\ i' # i)
            => (pc = "sleep" /\ i' = i + 1)]_vars
    /\ [][(pc # "sleep" /\ pc' = "sleep")
            => /\ result'.status = "ok"
               /\ Len(embeddings') = i + 1
               /\ embeddings'[i + 1] = result'.vec
               /\ IF (i + 1) % 10 = 0
                  THEN /\ pc = "ckpt_write"
                       /\ runSaves' = runSaves + 1
                       /\ load_vector_store(disk').embeddings = embeddings
                  ELSE pc = "embed"]_vars
    /\ [][IsProviderCall => pc = "embed"]_vars

\* the sleep after chunk 9, the checkpoint of 10 pairs on disk
C31_Witness ==
    /\ pc = "sleep"
    /\ i = CheckpointEvery - 1
    /\ runSaves = 1
    /\ disk = snapshot
    /\ Len(Persisted.embeddings) = CheckpointEvery

(***************************************************************************)
(* C34  No wasted backoff: within one get_embedding every sleep is         *)
(* followed by another provider call; the invocation does not end on a     *)
(* sleep.                                                                  *)
(***************************************************************************)
C34_NoWastedBackoff ==
    \A k \in 1..Len(trace) :
        trace[k].e = "sleep"
        => \/ k < Len(trace) /\ trace[k + 1].e \in {"ok", "error"}
           \/ k = Len(trace) /\ pc = "embed"

(***************************************************************************)
(* C35  Result pairing: every result of a search carries a valid index of  *)
(* the store, the document at that index and the similarity of the         *)
(* embedding at that index to the query, and no index comes twice in one   *)
(* result list.                                                            *)
(***************************************************************************)
C35_ResultPairing ==
    sPc = "returned"
    => /\ \A a \in 1..Len(sOut.items) :
             LET r == sOut.items[a]
             IN /\ r.idx \in 1..StoreSize
                /\ r.idx <= Len(sStore.documents)
                /\ r.text = sStore.documents[r.idx]
                /\ r.score = Similarity(sStore.embeddings[r.idx], sQuery)
       /\ \A a, b \in 1..Len(sOut.items) :
             a # b => sOut.items[a].idx # sOut.items[b].idx

\* the three documents of a store, the last one ranked first
C35_Witness ==
    /\ sPc = "returned"
    /\ StoreSize = 3
    /\ Len(sOut.items) = 3
    /\ sOut.items[1].idx = 3
    /\ sOut.items[1].text = <<303>>

(***************************************************************************)
(* Definitions shared by the properties of the rerun ingestion.            *)
(***************************************************************************)
\* a kill, or a provider call that raises
IsTrouble ==
    \/ pc # "killed" /\ pc' = "killed"
    \/ IsProviderCall /\ trace'[Len(trace')].e = "error"

\* the file holds the T pairs of the source, and nothing else
HoldsSource ==
    LET cs == SourceChunks(source)
    IN /\ Persisted.ok
       /\ Persisted.documents = cs
       /\ Len(Persisted.embeddings) = Len(cs)
       /\ \A k \in 1..Len(cs) : Persisted.embeddings[k] \in ProviderVectors(cs[k])

(***************************************************************************)
(* C32  Eventual completion under restart: when the ingestion of one       *)
(* source is run again after every abort or kill, and from some point on   *)
(* no provider call fails and no kill happens, a run reaches its end with  *)
(* the file holding exactly the T pairs of the source.                     *)
(***************************************************************************)
C32_EventualCompletion ==
    <>[][~IsTrouble]_vars => <>(pc = "done" /\ HoldsSource)

(***************************************************************************)
(* C33  Run termination: a started run ends, in its final save, in an      *)
(* abort or by a kill, and no get_embedding makes more than 3 provider     *)
(* calls for its chunk.                                                    *)
(***************************************************************************)
C33_RunTermination ==
    /\ [](ProviderCalls(trace) <= 3)
    /\ [][IsProviderCall => (i >= PersistedAtStart /\ i < Len(chunks))]_vars
    /\ (pc \notin Stopped ~> pc \in {"done", "aborted", "killed"})

\* a run that ended in an abort after 3 calls for its last chunk
C33_Witness ==
    /\ pc = "aborted"
    /\ ProviderCalls(trace) = 3
    /\ i = Len(chunks) - 1
    /\ runSaves = 1

====
